---------------------------- MODULE Spec2Model ----------------------------
(***************************************************************************)
(* Model of src/train.py (RSNA pneumonia detection: RetinaNet training and  *)
(* evaluation orchestration).                                               *)
(*                                                                          *)
(* Strings are sequences of one-character strings, so that path            *)
(* formatting (f-strings, {epoch_num:03}) is computed and compared as the   *)
(* code computes it.  The external collaborators (the detector's forward    *)
(* pass, metric.map_iou, the data loaders) are inputs drawn from small sets *)
(* or symbolic terms.                                                       *)
(*                                                                          *)
(* The module holds one specification per operation of the script:         *)
(*   SpecPaths      the MODELS lookup and the checkpoint path expressions   *)
(*   SpecTrain      train()                                                  *)
(*   SpecGen        generate_predictions()                                  *)
(*   SpecMetric     check_metric(), the loop over epochs                    *)
(*   SpecThreshold  check_metric(), the loop over images for one threshold  *)
(*   SpecSub        prepare_submission(), the loop over the patients        *)
(*   SpecSubImage   prepare_submission(), one patient with any scores       *)
(***************************************************************************)
EXTENDS Integers, Sequences, FiniteSets, TLC

VARIABLES
    \* arguments and locals shared by the operations
    model_name, run, fold, model_info, pc, epoch_num,
    \* checkpoint path expressions (train:293, generate_predictions:377,
    \* prepare_submission:493)
    train_path, gen_path, sub_path,
    \* train(): locals, the model's and the optimizer's state, and the
    \* checkpoint files written
    checkpoints_dir, nb_train, nb_valid, iter_num, training, grad_enabled,
    frozen_encoder, params, train_steps, valid_steps, sched_steps,
    checkpoints, last_saved, final_saved,
    \* the files under checkpoints/ and ../output/oof2/ (path -> content),
    \* and generate_predictions(): arguments, locals, the checkpoints loaded
    fs, predictions_dir, from_epoch, to_epoch, loaded,
    \* check_metric(): the rows of scores and the epochs printed (line 439)
    all_scores, evaluated,
    \* check_metric(), one pass of the loop over images (lines 442-477)
    threshold, nb_images, img_id, image, contribution, iou_call,
    threshold_scores, epoch_score, nb_pos,
    \* prepare_submission(): the sample submission's patientId column, the
    \* position in it, the detector's output for the current image, the mask
    \* and the submission file
    sample_submission, patient_idx, nms_scores, mask, submission

ctlVars == <<model_name, run, fold, model_info, pc, epoch_num>>
pathVars == <<train_path, gen_path, sub_path>>
trainVars ==
    <<checkpoints_dir, nb_train, nb_valid, iter_num, training, grad_enabled,
      frozen_encoder, params, train_steps, valid_steps, sched_steps,
      checkpoints, last_saved, final_saved>>
genVars == <<fs, predictions_dir, from_epoch, to_epoch, loaded>>
metricVars == <<all_scores, evaluated>>
thrVars ==
    <<threshold, nb_images, img_id, image, contribution, iou_call,
      threshold_scores, epoch_score, nb_pos>>
subVars == <<sample_submission, patient_idx, nms_scores, mask, submission>>
vars == <<ctlVars, pathVars, trainVars, genVars, metricVars, thrVars, subVars>>

\* the variables the operations of one specification leave alone
notPaths == <<trainVars, genVars, metricVars, thrVars, subVars>>
notTrain == <<pathVars, genVars, metricVars, thrVars, subVars>>
notGen == <<pathVars, trainVars, metricVars, thrVars, subVars>>
notMetric == <<pathVars, trainVars, from_epoch, to_epoch, loaded, thrVars, subVars>>
notThreshold == <<pathVars, trainVars, genVars, metricVars, subVars>>
notSub == <<pathVars, trainVars, predictions_dir, from_epoch, to_epoch, loaded,
            metricVars, thrVars>>

NoPath == <<>>

\* The variables of an operation that is not running
PathsIdle == train_path = NoPath /\ gen_path = NoPath /\ sub_path = NoPath

TrainIdle ==
    /\ checkpoints_dir = NoPath /\ nb_train = 0 /\ nb_valid = 0 /\ iter_num = 0
    /\ training = FALSE /\ grad_enabled = TRUE /\ frozen_encoder = FALSE
    /\ params = 0 /\ train_steps = 0 /\ valid_steps = 0 /\ sched_steps = 0
    /\ checkpoints = <<>> /\ last_saved = NoPath /\ final_saved = FALSE

NoFiles == [p \in {} |-> [kind |-> "", src |-> NoPath, data |-> <<>>]]

GenIdle ==
    /\ fs = NoFiles /\ predictions_dir = NoPath /\ from_epoch = 0 /\ to_epoch = 0
    /\ loaded = {}

MetricIdle == all_scores = <<>> /\ evaluated = <<>>

\* an image of a prediction file: the ground truth rows (x1, y1, x2, y2,
\* class), the predicted boxes (x1, y1, x2, y2) and their scores, in
\* thousandths
Image(gt_boxes, boxes, scores) == [gt_boxes |-> gt_boxes, boxes |-> boxes, scores |-> scores]

NoImage == Image(<<>>, <<>>, <<>>)
NoCall == [boxes_true |-> <<>>, boxes_pred |-> <<>>, scores |-> <<>>]
NoScore == [mean_of |-> <<>>, nan |-> FALSE]

ThresholdIdle ==
    /\ threshold = 0 /\ nb_images = 0 /\ img_id = 0 /\ image = NoImage
    /\ contribution = <<>> /\ iou_call = NoCall /\ threshold_scores = <<>>
    /\ epoch_score = NoScore /\ nb_pos = 0

\* the submission file before open(..., 'w')
NoSubmission == [header |-> "", lines |-> <<>>]

SubIdle ==
    /\ sample_submission = <<>> /\ patient_idx = 0 /\ nms_scores = <<>>
    /\ mask = <<>> /\ submission = NoSubmission

---------------------------------------------------------------------------
(* Strings                                                                 *)

DigitChars == <<"0", "1", "2", "3", "4", "5", "6", "7", "8", "9">>

\* str(n) for n >= 0
RECURSIVE NatToStr(_)
NatToStr(n) ==
    IF n < 10 THEN <<DigitChars[n + 1]>>
    ELSE NatToStr(n \div 10) \o <<DigitChars[(n % 10) + 1]>>

\* f'{n}' for an int
IntToStr(n) == IF n < 0 THEN <<"-">> \o NatToStr(-n) ELSE NatToStr(n)

RECURSIVE ZeroPad(_, _)
ZeroPad(s, width) == IF Len(s) >= width THEN s ELSE ZeroPad(<<"0">> \o s, width)

\* f'{n:1}': no padding, the mutant of Fmt03
FmtPlain(n) == IntToStr(n)

\* f'{n:03}': zero fill to width 3, the sign counted in the width
Fmt03(n) ==
    IF n < 0 THEN <<"-">> \o ZeroPad(NatToStr(-n), 2) ELSE ZeroPad(NatToStr(n), 3)

\* Python's None, distinct from every string (strings hold one-character
\* elements only)
None == <<"None">>

---------------------------------------------------------------------------
(* MODELS registry, train.py:48-133                                        *)

N_resnet34_512 ==
    <<"r","e","s","n","e","t","3","4","_","5","1","2">>
N_resnet101_512 ==
    <<"r","e","s","n","e","t","1","0","1","_","5","1","2">>
N_resnet152_512 ==
    <<"r","e","s","n","e","t","1","5","2","_","5","1","2">>
N_se_resnext101_512 ==
    <<"s","e","_","r","e","s","n","e","x","t","1","0","1","_","5","1","2">>
N_se_resnext101_512_bs12 ==
    <<"s","e","_","r","e","s","n","e","x","t","1","0","1","_","5","1","2","_","b","s","1","2">>
N_se_resnext101_256 ==
    <<"s","e","_","r","e","s","n","e","x","t","1","0","1","_","2","5","6">>
N_resnet34_256 ==
    <<"r","e","s","n","e","t","3","4","_","2","5","6">>
N_dpn92_256 ==
    <<"d","p","n","9","2","_","2","5","6">>
N_dpn92_512 ==
    <<"d","p","n","9","2","_","5","1","2">>
N_pnas_256 ==
    <<"p","n","a","s","_","2","5","6">>
N_pnas_512 ==
    <<"p","n","a","s","_","5","1","2">>
N_pnas_512_bs12 ==
    <<"p","n","a","s","_","5","1","2","_","b","s","1","2">>

ModelInfo(factory, num_classes, img_size, batch_size) ==
    [factory |-> factory, num_classes |-> num_classes, pretrained |-> TRUE,
     img_size |-> img_size, batch_size |-> batch_size]

ModelNames ==
    {N_resnet34_512, N_resnet101_512, N_resnet152_512, N_se_resnext101_512,
     N_se_resnext101_512_bs12, N_se_resnext101_256, N_resnet34_256,
     N_dpn92_256, N_dpn92_512, N_pnas_256, N_pnas_512, N_pnas_512_bs12}

MODELS ==
    [n \in ModelNames |->
        CASE n = N_resnet34_512 -> ModelInfo("resnet34", 1, 512, 8)
          [] n = N_resnet101_512 -> ModelInfo("resnet101", 1, 512, 4)
          [] n = N_resnet152_512 -> ModelInfo("resnet152", 1, 512, 4)
          [] n = N_se_resnext101_512 -> ModelInfo("se_resnext101", 1, 512, 3)
          [] n = N_se_resnext101_512_bs12 -> ModelInfo("se_resnext101", 1, 512, 12)
          [] n = N_se_resnext101_256 -> ModelInfo("se_resnext101", 1, 256, 12)
          [] n = N_resnet34_256 -> ModelInfo("resnet34", 1, 256, 32)
          [] n = N_dpn92_256 -> ModelInfo("dpn92", 1, 256, 4)
          [] n = N_dpn92_512 -> ModelInfo("dpn92", 1, 512, 4)
          [] n = N_pnas_256 -> ModelInfo("pnasnet5large", 1, 256, 8)
          [] n = N_pnas_512 -> ModelInfo("pnasnet5large", 1, 512, 4)
          [] n = N_pnas_512_bs12 -> ModelInfo("pnasnet5large", 1, 512, 8)]

\* model_info before MODELS[model_name] is evaluated
NoInfo == ModelInfo("", 0, 0, 0)

---------------------------------------------------------------------------
(* Path expressions                                                        *)

\* train.py:139, 365, 426, 486
RunStr(r) == IF r = None \/ r = <<>> THEN <<>> ELSE <<"_">> \o r

\* train.py:141  f'checkpoints/{model_name}{run_str}_fold_{fold}'
CheckpointsDir(m, r, f) ==
    <<"c","h","e","c","k","p","o","i","n","t","s","/">> \o m \o RunStr(r)
        \o <<"_","f","o","l","d","_">> \o IntToStr(f)

\* train.py:293  f'{checkpoints_dir}/{model_name}_{epoch_num:03}.pt'
TrainCheckpointPath(m, r, f, e) ==
    CheckpointsDir(m, r, f) \o <<"/">> \o m \o <<"_">> \o Fmt03(e) \o <<".","p","t">>

\* train.py:296  f'{checkpoints_dir}/{model_name}_final.pt'
TrainFinalPath(m, r, f) ==
    CheckpointsDir(m, r, f) \o <<"/">> \o m \o <<"_","f","i","n","a","l",".","p","t">>

\* the mutant of GenCheckpointPath: the epoch written without zero fill
GenCheckpointPathPlain(m, r, f, e) ==
    <<"c","h","e","c","k","p","o","i","n","t","s","/">> \o m \o RunStr(r)
        \o <<"_","f","o","l","d","_">> \o IntToStr(f) \o <<"/">> \o m \o <<"_">>
        \o FmtPlain(e) \o <<".","p","t">>

\* train.py:377
\* f'checkpoints/{model_name}{run_str}_fold_{fold}/{model_name}_{epoch_num:03}.pt'
GenCheckpointPath(m, r, f, e) ==
    <<"c","h","e","c","k","p","o","i","n","t","s","/">> \o m \o RunStr(r)
        \o <<"_","f","o","l","d","_">> \o IntToStr(f) \o <<"/">> \o m \o <<"_">>
        \o Fmt03(e) \o <<".","p","t">>

\* train.py:493, the same expression in prepare_submission
SubCheckpointPath(m, r, f, e) ==
    <<"c","h","e","c","k","p","o","i","n","t","s","/">> \o m \o RunStr(r)
        \o <<"_","f","o","l","d","_">> \o IntToStr(f) \o <<"/">> \o m \o <<"_">>
        \o Fmt03(e) \o <<".","p","t">>

\* train.py:366, 427, 487  f'../output/oof2/{model_name}{run_str}_fold_{fold}'
PredictionsDir(m, r, f) ==
    <<".",".","/","o","u","t","p","u","t","/","o","o","f","2","/">> \o m \o RunStr(r)
        \o <<"_","f","o","l","d","_">> \o IntToStr(f)

\* train.py:373, 433  f'{predictions_dir}/{epoch_num:03}.pkl'
PredictionFn(dir, e) == dir \o <<"/">> \o Fmt03(e) \o <<".","p","k","l">>

\* train.py:181
epochs == 512

---------------------------------------------------------------------------
(* SpecPaths: the registry lookup and the three checkpoint path            *)
(* expressions, applied to arguments drawn from small sets.                *)

\* --run values: None (train's default), '' (argparse default) and names
RunInputs == {None, <<>>, <<"v","2">>}
\* --fold values (argparse default -1)
FoldInputs == {-1, 0, 3}
\* --epoch values (argparse default -1), around the padding width and the
\* last epoch train runs
EpochInputs == {-1, 0, 7, 99, 100, 511, 512, 1000}

InitPaths ==
    /\ model_name \in ModelNames
    /\ run \in RunInputs
    /\ fold \in FoldInputs
    /\ epoch_num \in EpochInputs
    /\ model_info = NoInfo
    /\ pc = "paths"
    /\ PathsIdle
    /\ TrainIdle
    /\ GenIdle
    /\ MetricIdle
    /\ ThresholdIdle
    /\ SubIdle

\* train.py:137, 369, 490  model_info = MODELS[model_name]
LookupModel ==
    /\ pc = "paths"
    /\ model_info = NoInfo
    /\ model_info' = MODELS[model_name]
    /\ UNCHANGED <<model_name, run, fold, pc, epoch_num, pathVars, notPaths>>

\* train.py:183, 293: train writes the checkpoint of every epoch of
\* range(epochs)
TrainPath ==
    /\ pc = "paths"
    /\ model_info # NoInfo
    /\ epoch_num \in 0..(epochs - 1)
    /\ train_path = NoPath
    /\ train_path' = TrainCheckpointPath(model_name, run, fold, epoch_num)
    /\ UNCHANGED <<ctlVars, gen_path, sub_path, notPaths>>

\* train.py:377-379: generate_predictions loads the checkpoint of epoch_num
GenPath ==
    /\ pc = "paths"
    /\ model_info # NoInfo
    /\ gen_path = NoPath
    /\ gen_path' = GenCheckpointPath(model_name, run, fold, epoch_num)
    /\ UNCHANGED <<ctlVars, train_path, sub_path, notPaths>>

\* train.py:493-494: prepare_submission loads the checkpoint of epoch_num
SubPath ==
    /\ pc = "paths"
    /\ model_info # NoInfo
    /\ sub_path = NoPath
    /\ sub_path' = SubCheckpointPath(model_name, run, fold, epoch_num)
    /\ UNCHANGED <<ctlVars, train_path, gen_path, notPaths>>

NextPaths == LookupModel \/ TrainPath \/ GenPath \/ SubPath

SpecPaths == InitPaths /\ [][NextPaths]_vars


---------------------------------------------------------------------------
(* SpecTrain: train(), train.py:136-296.  The parameters of the model are  *)
(* identified by the number of optimizer steps applied to the initial      *)
(* weights; the data loaders yield nb_train and nb_valid batches per epoch. *)

MaxTrainBatches == 2
MaxValidBatches == 2

\* train.py:217  optimizer.step()
OptimizerStep(p) == p + 1

\* the mutant of ValidForward: an optimizer step in the validation loop
ValidForwardWithStep(p) == p + 1

\* train.py:236-251  the forward pass under torch.no_grad() with the model
\* in eval mode; no backward pass, no optimizer step
ValidForward(p) == p

\* the mutant of SavedCheckpoints: line 292's commented condition enabled
SavedCheckpointsEvery4(cps, e, p) ==
    IF e % 4 = 0 THEN Append(cps, [epoch |-> e, params |-> p]) ELSE cps

\* train.py:293  torch.save(retinanet.module, ...): the files of
\* checkpoints_dir after the save of epoch e, in the order written
SavedCheckpoints(cps, e, p) == Append(cps, [epoch |-> e, params |-> p])

InitTrain ==
    /\ model_name = N_resnet34_512
    /\ run \in {<<>>, <<"v", "2">>}
    /\ fold = 0
    /\ model_info = NoInfo
    /\ epoch_num = 0
    /\ pc = "train"
    /\ PathsIdle
    /\ checkpoints_dir = NoPath
    /\ nb_train \in 0..MaxTrainBatches
    /\ nb_valid \in 0..MaxValidBatches
    /\ iter_num = 0
    /\ training = FALSE /\ grad_enabled = TRUE /\ frozen_encoder = FALSE
    /\ params = 0 /\ train_steps = 0 /\ valid_steps = 0 /\ sched_steps = 0
    /\ checkpoints = <<>> /\ last_saved = NoPath /\ final_saved = FALSE
    /\ GenIdle
    /\ MetricIdle
    /\ ThresholdIdle
    /\ SubIdle

\* train.py:137-181
TrainSetup ==
    /\ pc = "train"
    /\ model_info' = MODELS[model_name]
    /\ checkpoints_dir' = CheckpointsDir(model_name, run, fold)
    /\ training' = TRUE
    /\ pc' = "epoch"
    /\ UNCHANGED <<model_name, run, fold, epoch_num, notTrain, nb_train, nb_valid,
                   iter_num, grad_enabled, frozen_encoder, params, train_steps,
                   valid_steps, sched_steps, checkpoints, last_saved, final_saved>>

\* train.py:183-195  for epoch_num in range(epochs): retinanet.train(), ...
TrainEpochBegin ==
    /\ pc = "epoch"
    /\ epoch_num < epochs
    /\ training' = TRUE
    /\ frozen_encoder' = (frozen_encoder \/ epoch_num < 1)
    /\ iter_num' = 0
    /\ pc' = "train_batch"
    /\ UNCHANGED <<model_name, run, fold, model_info, epoch_num, notTrain,
                   checkpoints_dir, nb_train, nb_valid, grad_enabled, params,
                   train_steps, valid_steps, sched_steps, checkpoints, last_saved,
                   final_saved>>

\* train.py:196-228  one batch of dataloader_train
TrainBatch ==
    /\ pc = "train_batch"
    /\ iter_num < nb_train
    /\ params' = OptimizerStep(params)
    /\ train_steps' = train_steps + 1
    /\ iter_num' = iter_num + 1
    /\ UNCHANGED <<ctlVars, notTrain, checkpoints_dir, nb_train, nb_valid, training,
                   grad_enabled, frozen_encoder, valid_steps, sched_steps,
                   checkpoints, last_saved, final_saved>>

\* train.py:230-246  training loop exhausted: with torch.no_grad():
\* retinanet.eval()
ValidBegin ==
    /\ pc = "train_batch"
    /\ iter_num = nb_train
    /\ grad_enabled' = FALSE
    /\ training' = FALSE
    /\ iter_num' = 0
    /\ pc' = "valid_batch"
    /\ UNCHANGED <<model_name, run, fold, model_info, epoch_num, notTrain,
                   checkpoints_dir, nb_train, nb_valid, frozen_encoder, params,
                   train_steps, valid_steps, sched_steps, checkpoints, last_saved,
                   final_saved>>

\* train.py:247-274  one batch of dataloader_valid
ValidBatch ==
    /\ pc = "valid_batch"
    /\ iter_num < nb_valid
    /\ params' = ValidForward(params)
    /\ valid_steps' = valid_steps + 1
    /\ iter_num' = iter_num + 1
    /\ UNCHANGED <<ctlVars, notTrain, checkpoints_dir, nb_train, nb_valid, training,
                   grad_enabled, frozen_encoder, train_steps, sched_steps,
                   checkpoints, last_saved, final_saved>>

\* train.py:276-289  validation loop exhausted: end of the no_grad block
ValidEnd ==
    /\ pc = "valid_batch"
    /\ iter_num = nb_valid
    /\ grad_enabled' = TRUE
    /\ pc' = "sched"
    /\ UNCHANGED <<model_name, run, fold, model_info, epoch_num, notTrain,
                   checkpoints_dir, nb_train, nb_valid, iter_num, training,
                   frozen_encoder, params, train_steps, valid_steps, sched_steps,
                   checkpoints, last_saved, final_saved>>

\* train.py:291  scheduler.step(np.mean(epoch_loss))
SchedulerStep ==
    /\ pc = "sched"
    /\ sched_steps' = sched_steps + 1
    /\ pc' = "save"
    /\ UNCHANGED <<model_name, run, fold, model_info, epoch_num, notTrain,
                   checkpoints_dir, nb_train, nb_valid, iter_num, training,
                   grad_enabled, frozen_encoder, params, train_steps, valid_steps,
                   checkpoints, last_saved, final_saved>>

\* train.py:293  torch.save(retinanet.module, '{checkpoints_dir}/..._{e:03}.pt')
SaveCheckpoint ==
    /\ pc = "save"
    /\ checkpoints' = SavedCheckpoints(checkpoints, epoch_num, params)
    /\ last_saved' = TrainCheckpointPath(model_name, run, fold, epoch_num)
    /\ epoch_num' = epoch_num + 1
    /\ pc' = "epoch"
    /\ UNCHANGED <<model_name, run, fold, model_info, notTrain, checkpoints_dir,
                   nb_train, nb_valid, iter_num, training, grad_enabled,
                   frozen_encoder, params, train_steps, valid_steps, sched_steps,
                   final_saved>>

\* train.py:295-296  after the last epoch: retinanet.eval(), save final
TrainFinish ==
    /\ pc = "epoch"
    /\ epoch_num >= epochs
    /\ training' = FALSE
    /\ final_saved' = TRUE
    /\ last_saved' = TrainFinalPath(model_name, run, fold)
    /\ pc' = "done"
    /\ UNCHANGED <<model_name, run, fold, model_info, epoch_num, notTrain,
                   checkpoints_dir, nb_train, nb_valid, iter_num, grad_enabled,
                   frozen_encoder, params, train_steps, valid_steps, sched_steps,
                   checkpoints>>

NextTrain ==
    \/ TrainSetup \/ TrainEpochBegin \/ TrainBatch \/ ValidBegin \/ ValidBatch
    \/ ValidEnd \/ SchedulerStep \/ SaveCheckpoint \/ TrainFinish

SpecTrain == InitTrain /\ [][NextTrain]_vars

---------------------------------------------------------------------------
(* SpecGen: generate_predictions(), train.py:364-414.  A file is           *)
(* [kind, src, data]: src is the checkpoint a prediction file was           *)
(* generated from (NoPath for a file found on disk at the start).          *)

MaxGenEpoch == 3

CheckpointFile == [kind |-> "pt", src |-> NoPath, data |-> <<>>]
ExistingPredictionFile == [kind |-> "pkl", src |-> NoPath, data |-> <<>>]

\* train.py:394-414  the oof dict of the loaded model's predictions on the
\* validation fold, as pickled
GeneratedPredictionFile(checkpoint) == [kind |-> "pkl", src |-> checkpoint, data |-> <<>>]

\* the mutant of PathExists: the existence check always answers no
PathExistsNever(files, path) == FALSE

\* train.py:374  os.path.exists(prediction_fn)
PathExists(files, path) == path \in DOMAIN files

\* train.py:379, 435, 494  torch.load / open(fn, 'rb') finds the file (it
\* raises FileNotFoundError otherwise)
FileFound(files, path) == path \in DOMAIN files

\* pickle.dump(..., open(fn, 'wb')): creates or overwrites
WriteFile(files, path, content) ==
    [p \in DOMAIN files \cup {path} |-> IF p = path THEN content ELSE files[p]]

InitGen ==
    /\ model_name = N_resnet34_512
    /\ run \in {<<>>, <<"v", "2">>}
    /\ fold = 0
    /\ model_info = NoInfo
    /\ epoch_num = 0
    /\ pc = "gen"
    /\ PathsIdle
    /\ TrainIdle
    /\ predictions_dir = NoPath
    /\ from_epoch \in 0..MaxGenEpoch
    /\ to_epoch \in 0..MaxGenEpoch
    /\ loaded = {}
    /\ MetricIdle
    /\ ThresholdIdle
    /\ SubIdle
    /\ \E C \in SUBSET (0..(MaxGenEpoch - 1)), P \in SUBSET (0..(MaxGenEpoch - 1)) :
          LET cps == {TrainCheckpointPath(model_name, run, fold, e) : e \in C}
              prs == {PredictionFn(PredictionsDir(model_name, run, fold), e) : e \in P}
          IN fs = [p \in cps \cup prs |->
                      IF p \in cps THEN CheckpointFile ELSE ExistingPredictionFile]

\* train.py:365-372
GenSetup ==
    /\ pc = "gen"
    /\ predictions_dir' = PredictionsDir(model_name, run, fold)
    /\ model_info' = MODELS[model_name]
    /\ epoch_num' = from_epoch
    /\ pc' = "gen_loop"
    /\ UNCHANGED <<model_name, run, fold, notGen, fs, from_epoch,
                   to_epoch, loaded>>

\* train.py:373-375  the prediction file exists: continue
GenSkip ==
    /\ pc = "gen_loop"
    /\ epoch_num < to_epoch
    /\ PathExists(fs, PredictionFn(predictions_dir, epoch_num))
    /\ epoch_num' = epoch_num + 1
    /\ UNCHANGED <<model_name, run, fold, model_info, pc, notGen, genVars>>

\* train.py:376-414  load the checkpoint, predict the fold, dump the file
GenPredict ==
    /\ pc = "gen_loop"
    /\ epoch_num < to_epoch
    /\ ~PathExists(fs, PredictionFn(predictions_dir, epoch_num))
    /\ LET checkpoint == GenCheckpointPath(model_name, run, fold, epoch_num) IN
          /\ FileFound(fs, checkpoint)
          /\ loaded' = loaded \cup {checkpoint}
          /\ fs' = WriteFile(fs, PredictionFn(predictions_dir, epoch_num),
                             GeneratedPredictionFile(checkpoint))
    /\ epoch_num' = epoch_num + 1
    /\ UNCHANGED <<model_name, run, fold, model_info, pc, notGen,
                   predictions_dir, from_epoch, to_epoch>>

\* train.py:378-381  torch.load raises FileNotFoundError: break
GenBreak ==
    /\ pc = "gen_loop"
    /\ epoch_num < to_epoch
    /\ ~PathExists(fs, PredictionFn(predictions_dir, epoch_num))
    /\ ~FileFound(fs, GenCheckpointPath(model_name, run, fold, epoch_num))
    /\ pc' = "gen_break"
    /\ UNCHANGED <<model_name, run, fold, model_info, epoch_num, notGen,
                   genVars>>

\* train.py:372  range(from_epoch, to_epoch) exhausted
GenExhausted ==
    /\ pc = "gen_loop"
    /\ epoch_num >= to_epoch
    /\ pc' = "gen_done"
    /\ UNCHANGED <<model_name, run, fold, model_info, epoch_num, notGen,
                   genVars>>

NextGen == GenSetup \/ GenSkip \/ GenPredict \/ GenBreak \/ GenExhausted

SpecGen == InitGen /\ [][NextGen]_vars

---------------------------------------------------------------------------
(* Selection of predictions, shared by check_metric (train.py:453-474)     *)
(* and prepare_submission (train.py:523-546).  Scores and thresholds are   *)
(* in thousandths, so scores < scores[0] * 0.5 is 2 * s < s0 and            *)
(* scores * 5 > threshold is 5 * s > t, both exact.                        *)

\* the mutant of ZeroedScores: the zeroing step left out
ZeroedScoresNoop(scores) == scores

\* train.py:453-454, 523-524
\* if len(scores): scores[scores < scores[0]*0.5] = 0.0
ZeroedScores(scores) ==
    IF Len(scores) > 0
    THEN [i \in 1..Len(scores) |-> IF 2 * scores[i] < scores[1] THEN 0 ELSE scores[i]]
    ELSE scores

\* train.py:460, 533  mask = scores * 5 > threshold
ScoreMask(scores, thr) == [i \in 1..Len(scores) |-> scores[i] * 5 > thr]

\* train.py:463, 539  np.any(mask)
AnyMask(m) == \E i \in 1..Len(m) : m[i]

\* train.py:466-472, 540-542  a[mask]: the rows of a the mask selects, in
\* their order
Masked(a, m) ==
    LET idx == SelectSeq([i \in 1..Len(m) |-> i], LAMBDA i : m[i])
    IN [j \in 1..Len(idx) |-> a[idx[j]]]

\* train.py:417-422
P1P2ToXYWH(p1p2) ==
    [i \in 1..Len(p1p2) |->
        <<p1p2[i][1], p1p2[i][2], p1p2[i][3] - p1p2[i][1], p1p2[i][4] - p1p2[i][2]>>]

---------------------------------------------------------------------------
(* check_metric(), train.py:425-482.  metric.map_iou is external: its      *)
(* result is the symbolic term of the numbers of boxes it was given.       *)

\* train.py:428, in thousandths
thresholds ==
    <<50, 75, 100, 150, 200, 250, 300, 350, 400, 500, 600, 700, 800, 900, 1000,
      1100, 1200, 1400, 1600, 2000, 3000, 4000>>

\* train.py:432  range(100)
NbMetricEpochs == 100

\* train.py:464, 467  the score 0.0
ZeroScore == [value |-> "0.0", n_true |-> 0, n_pred |-> 0]

\* train.py:469-472  metric.map_iou(boxes_true, boxes_pred, scores)
MapIou(boxes_true, boxes_pred, scores) ==
    [value |-> "map_iou", n_true |-> Len(boxes_true), n_pred |-> Len(boxes_pred)]

\* train.py:476-477  np.mean(threshold_scores), nan for an empty list
Mean(scores) == [mean_of |-> scores, nan |-> Len(scores) = 0]

\* train.py:445-474  the body of the loop over images: the scores appended
\* to threshold_scores and the arguments of the map_iou call, if any
ImageScore(im, thr) ==
    LET gt_boxes == im.gt_boxes
        scores == ZeroedScores(im.scores)
        m == ScoreMask(scores, thr)
    IN IF gt_boxes[1][5] = -1
       THEN [scores |-> IF AnyMask(m) THEN <<ZeroScore>> ELSE <<>>, call |-> NoCall]
       ELSE IF Len(Masked(scores, m)) = 0
       THEN [scores |-> <<ZeroScore>>, call |-> NoCall]
       ELSE LET call == [boxes_true |-> P1P2ToXYWH(gt_boxes),
                         boxes_pred |-> P1P2ToXYWH(Masked(im.boxes, m)),
                         scores |-> Masked(scores, m)]
            IN [scores |-> <<MapIou(call.boxes_true, call.boxes_pred, call.scores)>>,
                call |-> call]

\* train.py:443-474  threshold_scores after the loop over the images of oof
RECURSIVE ThresholdScores(_, _)
ThresholdScores(oof, thr) ==
    IF oof = <<>> THEN <<>>
    ELSE ThresholdScores(SubSeq(oof, 1, Len(oof) - 1), thr)
            \o ImageScore(oof[Len(oof)], thr).scores

\* train.py:440-477  epoch_scores: one mean per threshold, in the order of
\* thresholds
EpochScores(oof) ==
    [t \in 1..Len(thresholds) |-> Mean(ThresholdScores(oof, thresholds[t]))]

\* the mutant of NextAfterMissing: break instead of continue
NextAfterMissingBreak(e) == NbMetricEpochs

\* train.py:436-437  except FileNotFoundError: continue
NextAfterMissing(e) == e + 1

---------------------------------------------------------------------------
(* Inputs: images of a prediction file                                     *)

MaxBoxes == 2
MaxImages == 2
MaxFileEpoch == 2

\* collater2d pads an image without annotations with one row of -1
GtNegative == << <<-1, -1, -1, -1, -1>> >>
GtPositive == << <<16, 24, 80, 120, 0>> >>

PredBoxes(n) == [i \in 1..n |-> <<10 * i, 20 * i, 10 * i + 30, 20 * i + 40>>]

\* the scores 0.1, 0.2 and 0.4: the second is exactly half of the third,
\* the first below half of it, and 5 * s meets the thresholds 0.5, 1.0, 2.0
ScoreValues == {100, 200, 400}
ScoreSeqs == UNION {[1..k -> ScoreValues] : k \in 0..MaxBoxes}

ImageInputs ==
    {Image(gt, PredBoxes(Len(sc)), sc) : gt \in {GtNegative, GtPositive}, sc \in ScoreSeqs}

\* the contents of a prediction file: 1 an empty fold, 2 and 3 two images
OofInputs ==
    << <<>>,
       <<Image(GtNegative, PredBoxes(2), <<900, 500>>),
         Image(GtPositive, PredBoxes(3), <<500, 250, 100>>)>>,
       <<Image(GtNegative, PredBoxes(1), <<100>>),
         Image(GtPositive, PredBoxes(0), <<>>)>> >>

PredictionFile(oof) == [kind |-> "pkl", src |-> NoPath, data |-> oof]

---------------------------------------------------------------------------
(* SpecMetric: check_metric(), the loop over epochs                         *)

\* the epochs that may have a prediction file: the first ones, the last
\* one check_metric reads and the first one it does not
CandidateEpochs == (0..(MaxFileEpoch - 1)) \cup {NbMetricEpochs - 1, NbMetricEpochs}

InitMetric ==
    /\ model_name = N_resnet34_512
    /\ run = <<>>
    /\ fold = 0
    /\ model_info = NoInfo
    /\ epoch_num = 0
    /\ pc = "metric"
    /\ PathsIdle
    /\ TrainIdle
    /\ predictions_dir = NoPath /\ from_epoch = 0 /\ to_epoch = 0 /\ loaded = {}
    /\ MetricIdle
    /\ ThresholdIdle
    /\ SubIdle
    /\ \E c \in [CandidateEpochs -> 0..2] :
          LET fn(e) == PredictionFn(PredictionsDir(model_name, run, fold), e)
              E == {e \in CandidateEpochs : c[e] > 0}
          IN fs = [p \in {fn(e) : e \in E} |->
                      PredictionFile(OofInputs[1 + c[CHOOSE e \in E : fn(e) = p]])]

\* train.py:426-430
MetricSetup ==
    /\ pc = "metric"
    /\ predictions_dir' = PredictionsDir(model_name, run, fold)
    /\ all_scores' = <<>>
    /\ epoch_num' = 0
    /\ pc' = "metric_loop"
    /\ UNCHANGED <<model_name, run, fold, model_info, fs, evaluated, notMetric>>

\* train.py:433-478  the prediction file of epoch_num loads: one row
MetricEvaluate ==
    /\ pc = "metric_loop"
    /\ epoch_num < NbMetricEpochs
    /\ LET fn == PredictionFn(predictions_dir, epoch_num) IN
          /\ FileFound(fs, fn)
          /\ evaluated' = Append(evaluated, epoch_num)
          /\ all_scores' = Append(all_scores, EpochScores(fs[fn].data))
    /\ epoch_num' = epoch_num + 1
    /\ UNCHANGED <<model_name, run, fold, model_info, pc, fs, predictions_dir,
                   notMetric>>

\* train.py:434-437  FileNotFoundError: continue
MetricMissing ==
    /\ pc = "metric_loop"
    /\ epoch_num < NbMetricEpochs
    /\ ~FileFound(fs, PredictionFn(predictions_dir, epoch_num))
    /\ epoch_num' = NextAfterMissing(epoch_num)
    /\ UNCHANGED <<model_name, run, fold, model_info, pc, fs, predictions_dir,
                   metricVars, notMetric>>

\* train.py:480-482  np.max(all_scores) of at least one row
MetricBest ==
    /\ pc = "metric_loop"
    /\ epoch_num >= NbMetricEpochs
    /\ all_scores # <<>>
    /\ pc' = "metric_done"
    /\ UNCHANGED <<model_name, run, fold, model_info, epoch_num, fs, predictions_dir,
                   metricVars, notMetric>>

\* train.py:480  np.max of an empty list raises ValueError
MetricBestOfNone ==
    /\ pc = "metric_loop"
    /\ epoch_num >= NbMetricEpochs
    /\ all_scores = <<>>
    /\ pc' = "metric_error"
    /\ UNCHANGED <<model_name, run, fold, model_info, epoch_num, fs, predictions_dir,
                   metricVars, notMetric>>

NextMetric ==
    MetricSetup \/ MetricEvaluate \/ MetricMissing \/ MetricBest \/ MetricBestOfNone

SpecMetric == InitMetric /\ [][NextMetric]_vars

---------------------------------------------------------------------------
(* SpecThreshold: check_metric(), lines 443-477 for one threshold, the     *)
(* images of the prediction file read one at a time.                       *)

InitThreshold ==
    /\ model_name = N_resnet34_512
    /\ run = <<>>
    /\ fold = 0
    /\ model_info = NoInfo
    /\ epoch_num = 0
    /\ pc = "thr_loop"
    /\ PathsIdle
    /\ TrainIdle
    /\ GenIdle
    /\ MetricIdle
    /\ SubIdle
    /\ threshold \in {thresholds[t] : t \in 1..Len(thresholds)}
    /\ nb_images \in 0..MaxImages
    /\ img_id = 0 /\ image = NoImage /\ contribution = <<>> /\ iou_call = NoCall
    /\ threshold_scores = <<>> /\ epoch_score = NoScore /\ nb_pos = 0

\* train.py:444-474  one image
ThresholdImage ==
    /\ pc = "thr_loop"
    /\ img_id < nb_images
    /\ \E im \in ImageInputs :
          LET r == ImageScore(im, threshold) IN
          /\ image' = im
          /\ contribution' = r.scores
          /\ iou_call' = r.call
          /\ threshold_scores' = threshold_scores \o r.scores
          /\ nb_pos' = nb_pos + (IF im.gt_boxes[1][5] = -1 THEN 0 ELSE 1)
    /\ img_id' = img_id + 1
    /\ UNCHANGED <<ctlVars, threshold, nb_images, epoch_score, notThreshold>>

\* train.py:476-477  the images exhausted: the mean of threshold_scores
ThresholdMean ==
    /\ pc = "thr_loop"
    /\ img_id >= nb_images
    /\ epoch_score' = Mean(threshold_scores)
    /\ pc' = "thr_done"
    /\ UNCHANGED <<model_name, run, fold, model_info, epoch_num, threshold, nb_images,
                   img_id, image, contribution, iou_call, threshold_scores, nb_pos,
                   notThreshold>>

NextThreshold == ThresholdImage \/ ThresholdMean

SpecThreshold == InitThreshold /\ [][NextThreshold]_vars

---------------------------------------------------------------------------
(* SpecSub: prepare_submission(), train.py:485-550.  The detector's output *)
(* for an image is drawn when the image is processed.  A line of the file   *)
(* is its patientId and its prediction string, the string a sequence of     *)
(* the ' {score:.3f} {x:.1f} {y:.1f} {w:.1f} {h:.1f}' pieces appended.       *)

\* the patientId column of the sample submission: the first rows of one
\* of two orders of the patients
PatientOrders == {<<"p1", "p2", "p3", "p4">>, <<"p4", "p2", "p1", "p3">>}
SampleSubmissions == {SubSeq(ids, 1, k) : ids \in PatientOrders, k \in 0..MaxImages}

\* the detector's scores for an image: 0.1 (5 * s = 0.5), 0.25, 0.5 (twice
\* 0.25) and 0.9 (more than twice 0.25)
SubScoreValues == {100, 250, 500, 900}
SubScoreSeqs == UNION {[1..k -> SubScoreValues] : k \in 0..MaxBoxes}

\* the detector's scores for the images of a whole sample submission: no
\* box, one box at the mask's threshold, boxes that all pass, a box zeroed
\* for being under half of the first, a first box that does not pass
DetectorOutputs ==
    {<<>>, <<100>>, <<900, 500>>, <<900, 250>>, <<100, 900>>, <<500, 250, 100>>}

\* the mutant of ScoreMask in prepare_submission: >= for >
SubScoreMaskGe(scores, thr) == [i \in 1..Len(scores) |-> scores[i] * 5 >= thr]

\* train.py:532-533  threshold = 0.5; mask = scores * 5 > threshold
SubScoreMask(scores, thr) == ScoreMask(scores, thr)

\* train.py:535-546  submission_str for the boxes the mask selects, scaled
\* from img_size to 1024 pixels
SubmissionStr(boxes, scores, m, img_size) ==
    IF AnyMask(m)
    THEN LET boxes_selected == P1P2ToXYWH(Masked(boxes, m))
             k == 1024 \div img_size
             scores_selected == Masked(scores, m)
         IN [i \in 1..Len(scores_selected) |->
                [score |-> scores_selected[i],
                 x |-> boxes_selected[i][1] * k, y |-> boxes_selected[i][2] * k,
                 w |-> boxes_selected[i][3] * k, h |-> boxes_selected[i][4] * k]]
    ELSE <<>>

\* the mutant of WriteLine: the write inside the if np.any(mask) block
WriteLineIfAny(sub, patient_id, submission_str) ==
    IF submission_str = <<>> THEN sub
    ELSE [sub EXCEPT !.lines =
            Append(@, [patientId |-> patient_id, PredictionString |-> submission_str])]

\* train.py:550  submission.write(f'{patient_id},{submission_str}\n')
WriteLine(sub, patient_id, submission_str) ==
    [sub EXCEPT !.lines =
        Append(@, [patientId |-> patient_id, PredictionString |-> submission_str])]

InitSub ==
    /\ model_name \in {N_resnet34_512, N_resnet34_256}
    /\ run = <<>>
    /\ fold = 0
    /\ model_info = NoInfo
    /\ epoch_num = 7
    /\ pc = "sub"
    /\ PathsIdle
    /\ TrainIdle
    /\ predictions_dir = NoPath /\ from_epoch = 0 /\ to_epoch = 0 /\ loaded = {}
    /\ MetricIdle
    /\ ThresholdIdle
    /\ \E has \in BOOLEAN :
          fs = [p \in IF has THEN {TrainCheckpointPath(model_name, run, fold, epoch_num)}
                      ELSE {} |-> CheckpointFile]
    /\ sample_submission \in SampleSubmissions
    /\ patient_idx = 0 /\ nms_scores = <<>> /\ mask = <<>>
    /\ submission = NoSubmission

\* train.py:486-502  the checkpoint loads; the file is opened and the
\* header written
SubSetup ==
    /\ pc = "sub"
    /\ FileFound(fs, SubCheckpointPath(model_name, run, fold, epoch_num))
    /\ model_info' = MODELS[model_name]
    /\ submission' = [header |-> "patientId,PredictionString", lines |-> <<>>]
    /\ pc' = "sub_loop"
    /\ UNCHANGED <<model_name, run, fold, epoch_num, fs, sample_submission,
                   patient_idx, nms_scores, mask, notSub>>

\* train.py:494  torch.load raises FileNotFoundError
SubLoadFails ==
    /\ pc = "sub"
    /\ ~FileFound(fs, SubCheckpointPath(model_name, run, fold, epoch_num))
    /\ model_info' = MODELS[model_name]
    /\ pc' = "sub_error"
    /\ UNCHANGED <<model_name, run, fold, epoch_num, fs, subVars, notSub>>

\* train.py:504-550  the body of the loop for the detector's scores out
SubImageBody(out) ==
    LET scores == ZeroedScores(out)
        m == SubScoreMask(scores, 500)
        submission_str == SubmissionStr(PredBoxes(Len(out)), scores, m,
                                        model_info.img_size)
    IN /\ nms_scores' = out
       /\ mask' = m
       /\ submission' = WriteLine(submission, sample_submission[patient_idx + 1],
                                 submission_str)
       /\ patient_idx' = patient_idx + 1
       /\ UNCHANGED <<ctlVars, fs, sample_submission, notSub>>

\* train.py:504-550  one patientId of the sample submission
SubImage ==
    /\ pc = "sub_loop"
    /\ patient_idx < Len(sample_submission)
    /\ \E out \in DetectorOutputs : SubImageBody(out)

\* train.py:504  the patientId column exhausted
SubDone ==
    /\ pc = "sub_loop"
    /\ patient_idx >= Len(sample_submission)
    /\ pc' = "sub_done"
    /\ UNCHANGED <<model_name, run, fold, model_info, epoch_num, fs, subVars, notSub>>

NextSub == SubSetup \/ SubLoadFails \/ SubImage \/ SubDone

SpecSub == InitSub /\ [][NextSub]_vars

---------------------------------------------------------------------------
(* SpecSubImage: prepare_submission() on a sample submission of at most    *)
(* one patient, the detector's scores being any sequence of SubScoreValues *)

InitSubImage ==
    /\ InitSub
    /\ Len(sample_submission) <= 1

\* train.py:504-550  the patientId of the sample submission, any scores
SubImageAnyScores ==
    /\ pc = "sub_loop"
    /\ patient_idx < Len(sample_submission)
    /\ \E out \in SubScoreSeqs : SubImageBody(out)

NextSubImage == SubSetup \/ SubLoadFails \/ SubImageAnyScores \/ SubDone

SpecSubImage == InitSubImage /\ [][NextSubImage]_vars

---------------------------------------------------------------------------
(* Claims checked under SpecTrain                                          *)

\* C1: in every epoch e the phases run in the order: all training batches
\* of e, all validation batches of e, one scheduler step, the write of the
\* checkpoint '{model_name}_{e:03}.pt'; the checkpoint of e is written
\* before any training step of e+1, and '{model_name}_final.pt' only after
\* the checkpoint of epoch 511.  Stated with the counts of the events that
\* have happened when each phase is entered.
C1_PhaseOrder ==
    /\ pc = "train_batch" =>
          /\ epoch_num \in 0..(epochs - 1)
          /\ train_steps = epoch_num * nb_train + iter_num
          /\ valid_steps = epoch_num * nb_valid
          /\ sched_steps = epoch_num
          /\ Len(checkpoints) = epoch_num
    /\ pc = "valid_batch" =>
          /\ train_steps = (epoch_num + 1) * nb_train
          /\ valid_steps = epoch_num * nb_valid + iter_num
          /\ sched_steps = epoch_num
          /\ Len(checkpoints) = epoch_num
    /\ pc = "sched" =>
          /\ train_steps = (epoch_num + 1) * nb_train
          /\ valid_steps = (epoch_num + 1) * nb_valid
          /\ sched_steps = epoch_num
          /\ Len(checkpoints) = epoch_num
    /\ pc = "save" =>
          /\ train_steps = (epoch_num + 1) * nb_train
          /\ valid_steps = (epoch_num + 1) * nb_valid
          /\ sched_steps = epoch_num + 1
          /\ Len(checkpoints) = epoch_num
    /\ pc = "epoch" =>
          /\ train_steps = epoch_num * nb_train
          /\ valid_steps = epoch_num * nb_valid
          /\ sched_steps = epoch_num
          /\ Len(checkpoints) = epoch_num
          /\ epoch_num > 0 =>
                last_saved = checkpoints_dir \o <<"/">> \o model_name \o <<"_">>
                                \o Fmt03(epoch_num - 1) \o <<".", "p", "t">>
    /\ Len(checkpoints) > 0 => checkpoints[Len(checkpoints)].epoch = Len(checkpoints) - 1
    /\ final_saved =>
          /\ pc = "done"
          /\ Len(checkpoints) = epochs
          /\ checkpoints[epochs].epoch = epochs - 1
          /\ last_saved = checkpoints_dir \o <<"/">> \o model_name
                            \o <<"_", "f", "i", "n", "a", "l", ".", "p", "t">>

C1_Witness ==
    /\ final_saved /\ pc = "done"
    /\ nb_train = MaxTrainBatches /\ nb_valid = MaxValidBatches
    /\ Len(checkpoints) = epochs
    /\ train_steps = epochs * MaxTrainBatches

\* C8: the parameters change only through the optimizer steps of the
\* training phase (one per training batch); during validation the model is
\* in eval mode with gradients disabled and takes no optimizer step; the
\* model is in train mode for every training batch; the checkpoint of epoch
\* e holds the parameters reached after the last training batch of e.
C8_ParamsOnlyTrain ==
    /\ params = train_steps
    /\ pc = "valid_batch" =>
          /\ ~training /\ ~grad_enabled
          /\ params = (epoch_num + 1) * nb_train
    /\ pc = "train_batch" => training /\ grad_enabled
    /\ pc \in {"sched", "save"} => params = (epoch_num + 1) * nb_train
    /\ Len(checkpoints) > 0 =>
          checkpoints[Len(checkpoints)].params = Len(checkpoints) * nb_train

C8_Witness ==
    /\ pc = "train_batch" /\ epoch_num = 2 /\ iter_num = 1
    /\ nb_train = MaxTrainBatches /\ nb_valid = MaxValidBatches
    /\ valid_steps = 2 * MaxValidBatches
    /\ Len(checkpoints) = 2
    /\ checkpoints[2].params = 2 * MaxTrainBatches

---------------------------------------------------------------------------
(* Claims checked under SpecGen                                            *)

C6_Prediction(e) == PredictionFn(PredictionsDir(model_name, run, fold), e)
C6_Checkpoint(e) == TrainCheckpointPath(model_name, run, fold, e)

C6_State ==
    pc \in {"gen_loop", "gen_break", "gen_done"} =>
        /\ epoch_num >= from_epoch
        /\ \A e \in from_epoch..(epoch_num - 1) :
              /\ e < to_epoch
              /\ C6_Prediction(e) \in DOMAIN fs
              /\ fs[C6_Prediction(e)].src = NoPath => C6_Checkpoint(e) \notin loaded
              /\ fs[C6_Prediction(e)].src # NoPath =>
                    /\ fs[C6_Prediction(e)].src = C6_Checkpoint(e)
                    /\ C6_Checkpoint(e) \in loaded
        /\ loaded \subseteq {C6_Checkpoint(e) : e \in from_epoch..(epoch_num - 1)}
        /\ \A e \in epoch_num..MaxGenEpoch :
              C6_Prediction(e) \in DOMAIN fs => fs[C6_Prediction(e)].src = NoPath
        /\ pc = "gen_break" =>
              /\ epoch_num < to_epoch
              /\ C6_Prediction(epoch_num) \notin DOMAIN fs
              /\ C6_Checkpoint(epoch_num) \notin DOMAIN fs
        /\ pc = "gen_done" => epoch_num = to_epoch \/ (epoch_num = from_epoch /\ from_epoch > to_epoch)

C6_Step ==
    /\ \A p \in DOMAIN fs : p \in DOMAIN fs' /\ fs'[p] = fs[p]
    /\ pc = "gen_loop" => epoch_num' \in {epoch_num, epoch_num + 1}
    /\ (pc = "gen_loop" /\ C6_Prediction(epoch_num) \in DOMAIN fs) =>
          /\ loaded' = loaded
          /\ fs' = fs
    /\ pc \in {"gen_break", "gen_done"} => UNCHANGED <<fs, loaded, epoch_num, pc>>

\* C6: generate_predictions walks from_epoch..to_epoch-1 in ascending
\* order; an epoch whose prediction file exists is skipped without loading
\* its checkpoint and no existing file is ever overwritten; the run ends at
\* the first epoch with neither a prediction file nor a checkpoint, and no
\* later epoch is processed; every epoch in range below the stopping epoch
\* has a prediction file.
C6_GeneratePredictions == []C6_State /\ [][C6_Step]_vars

\* the run broke at epoch 1 although the checkpoint of epoch 2 exists, after
\* skipping nothing and generating epoch 0
C6_Witness ==
    /\ pc = "gen_break" /\ from_epoch = 0 /\ to_epoch = MaxGenEpoch /\ epoch_num = 1
    /\ C6_Checkpoint(2) \in DOMAIN fs
    /\ C6_Prediction(2) \notin DOMAIN fs
    /\ fs[C6_Prediction(0)].src = C6_Checkpoint(0)

\* an existing prediction file was skipped, and the epoch after it generated
C6_WitnessSkip ==
    /\ pc = "gen_done" /\ from_epoch = 0 /\ epoch_num = 2
    /\ fs[C6_Prediction(0)].src = NoPath
    /\ C6_Checkpoint(0) \in DOMAIN fs
    /\ fs[C6_Prediction(1)].src = C6_Checkpoint(1)

---------------------------------------------------------------------------
(* Claims checked under SpecMetric and SpecThreshold                       *)

C7_Fn(e) == PredictionFn(PredictionsDir(model_name, run, fold), e)

\* C7: check_metric evaluates every epoch of 0..99 that has a prediction
\* file, whatever the gaps: a missing file skips only its epoch; each
\* evaluated epoch contributes exactly one row of 22 scores, one per
\* threshold in the order of the threshold list, and an epoch without a
\* file contributes no row.
C7_RowsPerEpoch ==
    pc \in {"metric_loop", "metric_done", "metric_error"} =>
        /\ Len(all_scores) = Len(evaluated)
        /\ \A k \in 1..Len(evaluated) :
              /\ evaluated[k] \in 0..(epoch_num - 1)
              /\ k > 1 => evaluated[k - 1] < evaluated[k]
              /\ C7_Fn(evaluated[k]) \in DOMAIN fs
              /\ Len(all_scores[k]) = 22
              /\ \A t \in 1..22 :
                    all_scores[k][t] =
                        Mean(ThresholdScores(fs[C7_Fn(evaluated[k])].data, thresholds[t]))
        /\ \A e \in 0..(epoch_num - 1) :
              C7_Fn(e) \in DOMAIN fs => \E k \in 1..Len(evaluated) : evaluated[k] = e
        /\ epoch_num <= 100
        /\ pc \in {"metric_done", "metric_error"} => epoch_num = 100

\* epochs 0 and 99 evaluated across the gap 1..98, the file of epoch 100
\* left unread; the two rows differ
C7_Witness ==
    /\ pc = "metric_done"
    /\ evaluated = <<0, 99>>
    /\ C7_Fn(1) \notin DOMAIN fs
    /\ C7_Fn(100) \in DOMAIN fs
    /\ Len(all_scores) = 2
    /\ all_scores[1][1] # all_scores[1][22]
    /\ all_scores[1] # all_scores[2]

C4_Negative == image.gt_boxes[1][5] = -1

\* the predictions that pass the mask, as the claim states it: the score is
\* at least half of the first score and five times it exceeds the threshold
C4_Passing ==
    SelectSeq([i \in 1..Len(image.scores) |-> i],
              LAMBDA i : /\ 2 * image.scores[i] >= image.scores[1]
                         /\ 5 * image.scores[i] > threshold)

\* C4: for a threshold and an image, a negative image (gt_boxes[0,4] = -1)
\* contributes 0.0 when a prediction passes the mask and nothing when none
\* does; a positive image contributes exactly one score, 0.0 when none
\* passes and the map_iou of the passing predictions otherwise; so the
\* number of scores averaged is between the number of positive images and
\* the number of images.
C4_ImageContribution ==
    /\ img_id > 0 =>
          /\ (C4_Negative /\ C4_Passing # <<>>) =>
                contribution = <<ZeroScore>> /\ iou_call = NoCall
          /\ (C4_Negative /\ C4_Passing = <<>>) =>
                contribution = <<>> /\ iou_call = NoCall
          /\ (~C4_Negative /\ C4_Passing = <<>>) =>
                contribution = <<ZeroScore>> /\ iou_call = NoCall
          /\ (~C4_Negative /\ C4_Passing # <<>>) =>
                /\ Len(contribution) = 1
                /\ contribution[1].value = "map_iou"
                /\ contribution[1].n_pred = Len(C4_Passing)
                /\ Len(iou_call.boxes_true) = Len(image.gt_boxes)
                /\ iou_call.scores = [j \in 1..Len(C4_Passing) |-> image.scores[C4_Passing[j]]]
                /\ iou_call.boxes_pred =
                      [j \in 1..Len(C4_Passing) |->
                          LET b == image.boxes[C4_Passing[j]]
                          IN <<b[1], b[2], b[3] - b[1], b[4] - b[2]>>]
          /\ contribution # <<>> =>
                threshold_scores[Len(threshold_scores)] = contribution[1]
    /\ img_id <= nb_images
    /\ nb_pos <= Len(threshold_scores)
    /\ Len(threshold_scores) <= img_id
    /\ pc = "thr_done" =>
          /\ img_id = nb_images
          /\ epoch_score.mean_of = threshold_scores
          /\ epoch_score.nan = (threshold_scores = <<>>)

\* a positive image whose first prediction only passes, then a negative
\* image with a passing prediction: two scores averaged
C4_Witness ==
    /\ pc = "thr_done" /\ nb_images = 2 /\ threshold = 1400
    /\ image.scores = <<400, 200>> /\ C4_Negative
    /\ contribution = <<ZeroScore>>
    /\ nb_pos = 1
    /\ Len(threshold_scores) = 2
    /\ threshold_scores[1].value = "map_iou"

\* a negative image without a passing prediction contributes nothing
C4_WitnessNone ==
    /\ pc = "thr_done" /\ nb_images = 2 /\ nb_pos = 0
    /\ image.scores = <<100, 200>> /\ threshold = 1000
    /\ Len(threshold_scores) = 1

---------------------------------------------------------------------------
(* Claims checked under SpecSub and SpecSubImage                           *)

\* C2: prepare_submission writes the header 'patientId,PredictionString',
\* then exactly one line per patientId of the sample submission in its
\* order; each line starts with that patientId, and its prediction string
\* is empty exactly when no box of the image passes the mask.
C2_SubmissionLines ==
    /\ pc \in {"sub_loop", "sub_done"} =>
          /\ submission.header = "patientId,PredictionString"
          /\ Len(submission.lines) = patient_idx
          /\ patient_idx <= Len(sample_submission)
          /\ \A i \in 1..Len(submission.lines) :
                submission.lines[i].patientId = sample_submission[i]
          /\ patient_idx > 0 =>
                (submission.lines[patient_idx].PredictionString = <<>>
                    <=> \A i \in 1..Len(mask) : ~mask[i])
    /\ pc = "sub_done" => Len(submission.lines) = Len(sample_submission)

\* two lines written in the sample's order, the first with boxes and the
\* second empty
C2_Witness ==
    /\ pc = "sub_done"
    /\ sample_submission = <<"p4", "p2">>
    /\ Len(submission.lines) = 2
    /\ submission.lines[1].PredictionString # <<>>
    /\ submission.lines[2].PredictionString = <<>>
    /\ nms_scores = <<100>>

\* the boxes the claim says are emitted: the score is at least half of the
\* first score and five times it exceeds 0.5
C3_Emitted ==
    SelectSeq([i \in 1..Len(nms_scores) |-> i],
              LAMBDA i : /\ 2 * nms_scores[i] >= nms_scores[1]
                         /\ 5 * nms_scores[i] > 500)

C3_SortedNonNegative ==
    /\ \A i \in 1..Len(nms_scores) : nms_scores[i] >= 0
    /\ \A i \in 1..(Len(nms_scores) - 1) : nms_scores[i] >= nms_scores[i + 1]

\* C3: a predicted box is emitted iff its score is at least half of the
\* image's first score and its score times 5 exceeds 0.5; the emitted boxes
\* keep their order; when a box is emitted for an image whose scores are
\* non-negative and sorted in descending order, the first box is emitted.
C3_EmittedBoxes ==
    (pc \in {"sub_loop", "sub_done"} /\ patient_idx > 0) =>
        LET str == submission.lines[patient_idx].PredictionString
            k == 1024 \div model_info.img_size
        IN /\ Len(str) = Len(C3_Emitted)
           /\ \A j \in 1..Len(str) :
                 LET b == PredBoxes(Len(nms_scores))[C3_Emitted[j]] IN
                 /\ str[j].score = nms_scores[C3_Emitted[j]]
                 /\ str[j].x = k * b[1] /\ str[j].y = k * b[2]
                 /\ str[j].w = k * (b[3] - b[1]) /\ str[j].h = k * (b[4] - b[2])
           /\ (str # <<>> /\ C3_SortedNonNegative) => C3_Emitted[1] = 1

\* two sorted boxes, both emitted in their order
C3_Witness ==
    /\ pc = "sub_loop" /\ patient_idx > 0
    /\ nms_scores = <<900, 500>>
    /\ C3_Emitted = <<1, 2>>
    /\ Len(submission.lines[patient_idx].PredictionString) = 2
    /\ submission.lines[patient_idx].PredictionString[2].score = 500

\* unsorted scores: the second box is emitted and the first is not
C3_WitnessUnsorted ==
    /\ pc = "sub_loop" /\ patient_idx > 0
    /\ nms_scores = <<100, 900>>
    /\ C3_Emitted = <<2>>
    /\ Len(submission.lines[patient_idx].PredictionString) = 1

---------------------------------------------------------------------------
(* Claims checked under SpecPaths                                          *)

\* the set range(epochs) of epochs whose checkpoint train writes
TrainWrites(p) ==
    \E e \in 0..(epochs - 1) : TrainCheckpointPath(model_name, run, fold, e) = p

\* C5 (as amended): for the same (model name, run, fold, e) the path
\* generate_predictions and prepare_submission load is exactly the path
\* expression train saves to, so the checkpoint train writes for e is the
\* one they find; and for e in 0..epochs-1 the path they load is one train
\* writes.
C5_PathsAgree ==
    /\ gen_path # NoPath =>
          /\ gen_path = TrainCheckpointPath(model_name, run, fold, epoch_num)
          /\ train_path # NoPath => gen_path = train_path
          /\ epoch_num \in 0..(epochs - 1) => TrainWrites(gen_path)
    /\ sub_path # NoPath =>
          /\ sub_path = TrainCheckpointPath(model_name, run, fold, epoch_num)
          /\ train_path # NoPath => sub_path = train_path
          /\ epoch_num \in 0..(epochs - 1) => TrainWrites(sub_path)

C5_Witness ==
    /\ train_path # NoPath /\ gen_path # NoPath /\ sub_path # NoPath
    /\ run = <<"v", "2">> /\ fold = 3 /\ epoch_num = 7
    /\ gen_path = CheckpointsDir(model_name, run, fold) \o <<"/">> \o model_name
                    \o <<"_", "0", "0", "7", ".", "p", "t">>

\* C5 as stated: no downstream operation reads a path train never writes,
\* whatever the epoch.
C5_Original ==
    /\ gen_path # NoPath => TrainWrites(gen_path)
    /\ sub_path # NoPath => TrainWrites(sub_path)

\* name.split('_')
RECURSIVE SplitUnderscore(_, _)
SplitUnderscore(s, cur) ==
    IF s = <<>> THEN <<cur>>
    ELSE IF Head(s) = "_" THEN <<cur>> \o SplitUnderscore(Tail(s), <<>>)
    ELSE SplitUnderscore(Tail(s), Append(cur, Head(s)))

IsDigits(t) ==
    /\ Len(t) > 0
    /\ \A i \in 1..Len(t) : \E d \in 1..10 : DigitChars[d] = t[i]

DigitValue(c) == (CHOOSE d \in 1..10 : DigitChars[d] = c) - 1

RECURSIVE ParseDec(_)
ParseDec(t) ==
    IF t = <<>> THEN 0
    ELSE 10 * ParseDec(SubSeq(t, 1, Len(t) - 1)) + DigitValue(t[Len(t)])

IsResolutionToken(t) == t = <<"2", "5", "6">> \/ t = <<"5", "1", "2">>

IsBatchSizeToken(t) ==
    /\ Len(t) > 2
    /\ t[1] = "b" /\ t[2] = "s"
    /\ IsDigits(SubSeq(t, 3, Len(t)))

\* C9: the registry entry looked up for a name is consistent with the name:
\* the _256/_512 suffix equals img_size, a _bsN suffix equals batch_size,
\* num_classes = 1 and batch_size > 0.
C9_RegistryConsistent ==
    model_info # NoInfo =>
        LET toks == SplitUnderscore(model_name, <<>>) IN
        /\ \E i \in 1..Len(toks) : IsResolutionToken(toks[i])
        /\ \A i \in 1..Len(toks) :
              /\ IsResolutionToken(toks[i]) => ParseDec(toks[i]) = model_info.img_size
              /\ IsBatchSizeToken(toks[i]) =>
                    ParseDec(SubSeq(toks[i], 3, Len(toks[i]))) = model_info.batch_size
        /\ model_info.num_classes = 1
        /\ model_info.batch_size > 0

=============================================================================
